---------------------------- MODULE Spec2Model ----------------------------
(***************************************************************************)
(* A model of uPose (src/src/upose.cpp): the 2D role tracker               *)
(* Context::track2DFeatures driven by Context::step, and the random local  *)
(* search optimizeRandomSearch.                                            *)
(*                                                                         *)
(* Points are records [x, y] of integers (cv::Point).  A contour is a      *)
(* non-empty sequence of points (one element of the vector that            *)
(* cv::findContours fills).  Sequences are 1-based here; the C++ indices   *)
(* kept in `indices` are 0-based with -1 for "none", as in the source.     *)
(***************************************************************************)
EXTENDS Integers, Sequences, FiniteSets

(***************************************************************************)
(* Bounds of the model.                                                    *)
(***************************************************************************)
\* skin.cols and skin.rows: the size of the frames the camera delivers
Cols == 32
Rows == 24
\* the largest number of contours findContours returns for one frame
MaxContours == 4
\* the number of frames stepped through
MaxFrames == 2
\* optimizeRandomSearch: the largest dimension, iterationCount and radius
\* passed in, and the largest entry of the initial guess
MaxDimension == 2
MaxIterations == 3
MaxRadius == 2
MaxSeed == 1

(***************************************************************************)
(* Program constants.                                                      *)
(***************************************************************************)
\* upose.cpp:129  if(contours.size() >= 3)
MinContours == 3
\* upose.cpp:149  (rows*rows + cols*cols) / 64
SentinelDivisor == 64
\* upose.cpp:102  int bestDist = 100000
SleeveBestDist == 100000

VARIABLES
    m_last2D,     \* Features2D: face, leftHand, rightHand, neck, shoulders
    m_lastu2D,    \* the un-normalized hand locations (the priors of the hands)
    frameNo,      \* number of frames stepped so far
    contours,     \* track2DFeatures: the contours of the latest frame
    costs,        \* track2DFeatures: the cost matrix of the latest frame
    minCost,      \* track2DFeatures: per-role minimum after the scan
    indices,      \* track2DFeatures: per-role selected index, -1 for none
    priors,       \* the locations the latest cost computation measured from
    prev2D,       \* m_last2D on entry of the latest track2DFeatures
    prevu2D,      \* m_lastu2D on entry of the latest track2DFeatures
    rendered,     \* the Features2D handed to Human / visualizeUpperSkeleton
    pc,           \* optimizeRandomSearch: where the call is
    cost,         \* optimizeRandomSearch: the cost function passed in
    dimension,    \* optimizeRandomSearch: argument
    iterationCount, \* optimizeRandomSearch: argument
    radius,       \* optimizeRandomSearch: argument
    seed,         \* the contents of optimum[] on entry
    optimum,      \* the caller's array optimum[]
    candidate,    \* the malloc'ed array candidate[]
    best,         \* int best
    iteration,    \* the loop counter
    dim,          \* int dim of the latest iteration
    change,       \* int change of the latest iteration
    candidateCost, \* int candidateCost of the latest iteration
    evals         \* number of calls of cost() so far

trackVars == <<m_last2D, m_lastu2D, frameNo, contours, costs, minCost,
               indices, priors, prev2D, prevu2D, rendered>>

optVars == <<pc, cost, dimension, iterationCount, radius, seed, optimum,
             candidate, best, iteration, dim, change, candidateCost, evals>>

vars == <<trackVars, optVars>>

(***************************************************************************)
(* Integer arithmetic as the C++ code performs it.                         *)
(***************************************************************************)
Pt(px, py) == [x |-> px, y |-> py]

PtAdd(a, b) == Pt(a.x + b.x, a.y + b.y)

PtSub(a, b) == Pt(a.x - b.x, a.y - b.y)

Abs(n) == IF n < 0 THEN -n ELSE n

\* C++ integer division truncates toward zero
CDiv(a, b) ==
    IF (a >= 0) = (b > 0) THEN Abs(a) \div Abs(b) ELSE -(Abs(a) \div Abs(b))

RECURSIVE IsqrtFrom(_, _)
IsqrtFrom(n, r) == IF (r + 1) * (r + 1) > n THEN r ELSE IsqrtFrom(n, r + 1)

\* floor of the square root of n >= 0
Isqrt(n) == IsqrtFrom(n, 0)

\* the squared length of a point; cv::norm(p) is its (double) square root
NormSq(p) == p.x * p.x + p.y * p.y

\* (int)(cv::norm(p) + k): the double sqrt(NormSq(p)) + k converted to int,
\* which truncates toward zero
NormPlusToInt(p, k) ==
    LET s == Isqrt(NormSq(p))
        exact == s * s = NormSq(p)
    IN  IF exact \/ s + k >= 0 THEN s + k ELSE s + k + 1

\* cvRound(n / 2) for n >= 0: round to nearest, ties to even
\* (saturate_cast<int> of the double n * 0.5)
RoundHalf(n) ==
    LET q == n \div 2
    IN  IF n % 2 = 0 THEN q ELSE IF q % 2 = 0 THEN q ELSE q + 1

(***************************************************************************)
(* Sequences helpers.                                                      *)
(***************************************************************************)
Min2(a, b) == IF a < b THEN a ELSE b

Max2(a, b) == IF a > b THEN a ELSE b

\* the extent of the points i..Len(contour) of a contour
RECURSIVE Extent(_, _)
Extent(contour, i) ==
    IF i = Len(contour)
    THEN [minX |-> contour[i].x, maxX |-> contour[i].x,
          minY |-> contour[i].y, maxY |-> contour[i].y]
    ELSE LET e == Extent(contour, i + 1)
         IN  [minX |-> Min2(contour[i].x, e.minX),
              maxX |-> Max2(contour[i].x, e.maxX),
              minY |-> Min2(contour[i].y, e.minY),
              maxY |-> Max2(contour[i].y, e.maxY)]

(***************************************************************************)
(* cv::Rect and the per-candidate geometry of track2DFeatures.             *)
(***************************************************************************)
\* cv::boundingRect: the up-right rectangle of a point set, inclusive
boundingRect(contour) ==
    LET e == Extent(contour, 1)
    IN  [x |-> e.minX, y |-> e.minY,
         width  |-> e.maxX - e.minX + 1,
         height |-> e.maxY - e.minY + 1]

tl(r) == Pt(r.x, r.y)

br(r) == Pt(r.x + r.width, r.y + r.height)

\* upose.cpp:133  (bounding.tl() + bounding.br()) * 0.5
Centroid(bounding) ==
    LET s == PtAdd(tl(bounding), br(bounding))
    IN  Pt(RoundHalf(s.x), RoundHalf(s.y))


\* a variant of Priors: the hands measured from the normalized locations
Priors_Mutant(last2D, lastu2D) ==
    [face      |-> last2D.face,
     leftHand  |-> last2D.leftHand,
     rightHand |-> last2D.rightHand]

\* upose.cpp:141-143  which stored location each role's cost measures from
Priors(last2D, lastu2D) ==
    [face      |-> last2D.face,
     leftHand  |-> lastu2D.leftHand,
     rightHand |-> lastu2D.rightHand]

\* a variant of CostRow: the width subtracted twice
CostRow_Mutant(centroid, w, pr, cols) ==
    << NormPlusToInt(PtSub(pr.face, centroid), centroid.y - 2 * w),
       NormPlusToInt(PtSub(pr.leftHand, centroid), centroid.x - 2 * w),
       NormPlusToInt(PtSub(pr.rightHand, centroid), (cols - centroid.x) - 2 * w) >>

\* upose.cpp:140-145  one row of the cost matrix: <<face, leftHand, rightHand>>
CostRow(centroid, w, pr, cols) ==
    << NormPlusToInt(PtSub(pr.face, centroid), centroid.y - w),
       NormPlusToInt(PtSub(pr.leftHand, centroid), centroid.x - w),
       NormPlusToInt(PtSub(pr.rightHand, centroid), (cols - centroid.x) - w) >>

\* upose.cpp:130-146  the rows of the cost matrix for contours i..Len(cs)
RECURSIVE CostRows(_, _, _, _)
CostRows(cs, pr, cols, i) ==
    IF i > Len(cs) THEN << >>
    ELSE LET bounding == boundingRect(cs[i])
         IN  << CostRow(Centroid(bounding), bounding.width, pr, cols) >>
             \o CostRows(cs, pr, cols, i + 1)

CostMatrix(cs, pr, cols) == CostRows(cs, pr, cols, 1)

\* a variant of Sentinel: the division left out
Sentinel_Mutant(rows, cols) == rows * rows + cols * cols

\* upose.cpp:148-152  the initial per-role minimum
Sentinel(rows, cols) == (rows * rows + cols * cols) \div SentinelDivisor

\* a variant of Less: a scan that also replaces on equal cost
Less_Mutant(c, m) == c <= m

\* upose.cpp:160  if(costs[i][p] < minCost[p])
Less(c, m) == c < m

\* upose.cpp:158-165 for one role p (1..3): the scan from candidate i (1-based)
\* on, carrying the minimum so far and its 0-based index
RECURSIVE ScanFrom(_, _, _, _, _)
ScanFrom(cm, p, i, m, index) ==
    IF i > Len(cm) THEN [minCost |-> m, index |-> index]
    ELSE IF Less(cm[i][p], m) THEN ScanFrom(cm, p, i + 1, cm[i][p], i - 1)
    ELSE ScanFrom(cm, p, i + 1, m, index)

Scan(cm, p, rows, cols) == ScanFrom(cm, p, 1, Sentinel(rows, cols), -1)

\* upose.cpp:175  cv::Point(face.x, face.y + 2*face.width)
Neck(face) == Pt(face.x, face.y + 2 * face.width)

\* a variant of LeftShoulder: the sign of the offset lost
LeftShoulder_Mutant(neck, face) == PtAdd(neck, Pt(CDiv(face.width, 2), 0))

\* upose.cpp:178  neck + cv::Point(-face.width / 2, 0)
LeftShoulder(neck, face) == PtAdd(neck, Pt(CDiv(-face.width, 2), 0))

\* upose.cpp:179  neck + cv::Point(3*face.width / 2, 0)
RightShoulder(neck, face) == PtAdd(neck, Pt(CDiv(3 * face.width, 2), 0))

\* upose.cpp:104-111  the index (0-based) of the first contour point nearest
\* to the shoulder, scanning from point i (0-based) on
RECURSIVE SleeveScan(_, _, _, _, _)
SleeveScan(contour, shoulder, i, bestDist, bestIndex) ==
    IF i >= Len(contour) THEN bestIndex
    ELSE LET dist == NormPlusToInt(PtSub(shoulder, contour[i + 1]), 0)
         IN  IF dist < bestDist
             THEN SleeveScan(contour, shoulder, i + 1, dist, i)
             ELSE SleeveScan(contour, shoulder, i + 1, bestDist, bestIndex)

\* a variant of sleeveNormalize: the nearest point itself
sleeveNormalize_Mutant(contour, shoulder) ==
    contour[SleeveScan(contour, shoulder, 0, SleeveBestDist, 0) + 1]

\* upose.cpp:101-114  the contour point half way round from the point
\* nearest to the shoulder
sleeveNormalize(contour, shoulder) ==
    LET bestIndex == SleeveScan(contour, shoulder, 0, SleeveBestDist, 0)
    IN  contour[((bestIndex + Len(contour) \div 2) % Len(contour)) + 1]

\* a variant of EnoughContours: the threshold one too low
EnoughContours_Mutant(cs) == Len(cs) >= MinContours - 1

\* upose.cpp:129  if(contours.size() >= 3)
EnoughContours(cs) == Len(cs) >= MinContours

\* upose.cpp:167-195  the assignments after the scan, in source order
Assign(last2D, lastu2D, cs, idx) ==
    LET faceRect == boundingRect(cs[idx[1] + 1])
        neck == Neck(faceRect)
        a == IF idx[1] > -1
             THEN [last2D EXCEPT
                     !.face = Centroid(faceRect),
                     !.neck = neck,
                     !.leftShoulder = LeftShoulder(neck, faceRect),
                     !.rightShoulder = RightShoulder(neck, faceRect)]
             ELSE last2D
        b == IF idx[2] > -1
             THEN [a EXCEPT !.leftHand =
                     sleeveNormalize(cs[idx[2] + 1], a.leftShoulder)]
             ELSE a
        c == IF idx[3] > -1
             THEN [b EXCEPT !.rightHand =
                     sleeveNormalize(cs[idx[3] + 1], b.rightShoulder)]
             ELSE b
        ul == IF idx[2] > -1
              THEN [lastu2D EXCEPT !.leftHand =
                      Centroid(boundingRect(cs[idx[2] + 1]))]
              ELSE lastu2D
        ur == IF idx[3] > -1
              THEN [ul EXCEPT !.rightHand =
                      Centroid(boundingRect(cs[idx[3] + 1]))]
              ELSE ul
    IN  [last2D |-> c, lastu2D |-> ur]

\* upose.cpp:121-197  track2DFeatures as a function of the stored estimates
\* and the contours of the frame
Track(last2D, lastu2D, cs, rows, cols) ==
    IF EnoughContours(cs)
    THEN LET pr == Priors(last2D, lastu2D)
             cm == CostMatrix(cs, pr, cols)
             s1 == Scan(cm, 1, rows, cols)
             s2 == Scan(cm, 2, rows, cols)
             s3 == Scan(cm, 3, rows, cols)
             idx == << s1.index, s2.index, s3.index >>
             out == Assign(last2D, lastu2D, cs, idx)
         IN  [last2D |-> out.last2D, lastu2D |-> out.lastu2D, priors |-> pr,
              costs |-> cm,
              minCost |-> << s1.minCost, s2.minCost, s3.minCost >>,
              indices |-> idx]
    ELSE [last2D |-> last2D, lastu2D |-> lastu2D,
          priors |-> Priors(last2D, lastu2D), costs |-> << >>,
          minCost |-> << >>, indices |-> <<-1, -1, -1>>]

(***************************************************************************)
(* The frames: what cv::findContours can return for a frame.               *)
(***************************************************************************)
\* the contour findContours (CV_CHAIN_APPROX_SIMPLE) gives for a filled
\* up-right rectangle: its corners, counter-clockwise from the top left
RectContour(x, y, w, h) ==
    IF w = 1 /\ h = 1 THEN << Pt(x, y) >>
    ELSE IF w = 1 THEN << Pt(x, y), Pt(x, y + h - 1) >>
    ELSE IF h = 1 THEN << Pt(x, y), Pt(x + w - 1, y) >>
    ELSE << Pt(x, y), Pt(x, y + h - 1),
            Pt(x + w - 1, y + h - 1), Pt(x + w - 1, y) >>

RECURSIVE ShiftFrom(_, _, _)
ShiftFrom(contour, dx, i) ==
    IF i > Len(contour) THEN << >>
    ELSE << Pt(contour[i].x + dx, contour[i].y) >> \o ShiftFrom(contour, dx, i + 1)

\* a contour moved by (dx, 0)
Shift(contour, dx) == ShiftFrom(contour, dx, 1)

\* a wide blob at the top centre, a blob near the left edge, a blob near the
\* right edge (each also shifted by +2), a one-pixel speck and a diamond
TopBlob == RectContour(Cols \div 2 - 6, 0, 12, 4)

LeftBlob == RectContour(1, Rows \div 2, 4, 6)

RightBlob == RectContour(Cols - 6, Rows \div 2, 4, 6)

Speck == RectContour(Cols \div 2, Rows - 4, 1, 1)

Diamond ==
    << Pt(Cols \div 2 + 4, 8), Pt(Cols \div 2 + 2, 11),
       Pt(Cols \div 2 + 4, 14), Pt(Cols \div 2 + 6, 11) >>

\* the regions in the order of a raster scan of their first points
Regions == << TopBlob, Diamond, LeftBlob, RightBlob, Speck >>

RECURSIVE Pick(_, _)
\* the regions whose positions are in S, in raster order
Pick(S, i) ==
    IF i > Len(Regions) THEN << >>
    ELSE (IF i \in S THEN << Regions[i] >> ELSE << >>) \o Pick(S, i + 1)

RECURSIVE Reverse(_)
Reverse(s) == IF s = << >> THEN << >> ELSE Reverse(Tail(s)) \o << Head(s) >>

RECURSIVE ShiftAllFrom(_, _, _)
ShiftAllFrom(cs, dx, i) ==
    IF i > Len(cs) THEN << >>
    ELSE << Shift(cs[i], dx) >> \o ShiftAllFrom(cs, dx, i + 1)

\* every region of a frame moved by (dx, 0)
ShiftAll(cs, dx) == ShiftAllFrom(cs, dx, 1)

\* the contour vectors of the frames: up to MaxContours regions, in the
\* order of the scan or in the opposite order (the order findContours
\* delivers is its own); frames that reach track2DFeatures' threshold also
\* come moved by (+2, 0), the motion of the end-to-end scenario
Frames ==
    LET sets == { S \in SUBSET (1..Len(Regions)) : Cardinality(S) <= MaxContours }
        scan == { Pick(S, 1) : S \in sets }
        many == { cs \in scan : Len(cs) >= 3 }
        both == scan \cup { Reverse(cs) : cs \in many }
    IN  both \cup { ShiftAll(cs, 2) : cs \in { c \in both : Len(c) >= 3 } }

(***************************************************************************)
(* The tracker as a state machine.                                         *)
(***************************************************************************)
Origin == Pt(0, 0)

\* upose.cpp:60-67  the constructor leaves every cv::Point of m_last2D and
\* m_lastu2D default-constructed, (0, 0)

InitialFeatures ==
    [face |-> Origin, leftHand |-> Origin, rightHand |-> Origin,
     neck |-> Origin, leftShoulder |-> Origin, rightShoulder |-> Origin]

InitialHands == [leftHand |-> Origin, rightHand |-> Origin]

TrackInit ==
    /\ m_last2D = InitialFeatures
    /\ m_lastu2D = InitialHands
    /\ frameNo = 0
    /\ contours = << >>
    /\ costs = << >>
    /\ minCost = << >>
    /\ indices = <<-1, -1, -1>>
    /\ priors = [face |-> Origin, leftHand |-> Origin, rightHand |-> Origin]
    /\ prev2D = m_last2D
    /\ prevu2D = m_lastu2D
    /\ rendered = m_last2D

\* upose.cpp:251-277  one frame: the contours of the frame's skin mask go
\* through track2DFeatures, and m_last2D is handed to Human (the optimizer's
\* context) and to visualizeUpperSkeleton
step(cs) ==
    \E t \in { Track(m_last2D, m_lastu2D, cs, Rows, Cols) } :
        /\ frameNo' = frameNo + 1
        /\ contours' = cs
        /\ prev2D' = m_last2D
        /\ prevu2D' = m_lastu2D
        /\ priors' = t.priors
        /\ costs' = t.costs
        /\ minCost' = t.minCost
        /\ indices' = t.indices
        /\ m_last2D' = t.last2D
        /\ m_lastu2D' = t.lastu2D
        /\ rendered' = t.last2D
        /\ UNCHANGED optVars

TrackNext == frameNo < MaxFrames /\ \E cs \in Frames : step(cs)

(***************************************************************************)
(* optimizeRandomSearch.  The array the caller passes as `optimum` (step   *)
(* passes m_skeleton) is the variable optimum; cost functions are pure     *)
(* functions of the parameter array.                                       *)
(***************************************************************************)
\* the cost functions passed in: a bowl around 2 in every coordinate, a
\* constant, a slope with no minimum, and a function with several dips
CostFunctions == {"bowl", "flat", "slope", "dips"}

\* what one coordinate of value v adds to the cost
CostTerm(fn, v) ==
    CASE fn = "bowl" -> Abs(v - 2)
      [] fn = "flat" -> 0
      [] fn = "slope" -> -v
      [] fn = "dips" -> IF v % 3 = 0 THEN Abs(v) ELSE 4

RECURSIVE CostFrom(_, _, _)
CostFrom(fn, p, i) ==
    IF i > Len(p) THEN 0 ELSE CostTerm(fn, p[i]) + CostFrom(fn, p, i + 1)

\* cost(p, context): the value of the cost function fn on the array p
CostOf(fn, p) == CostFrom(fn, p, 1)

\* a variant of Improves: the comparison turned round
Improves_Mutant(c, b) == c > b

\* upose.cpp:44  if(candidateCost < best)
Improves(c, b) == c < b

\* upose.cpp:36  int dim = iteration % dimension
Dim(t, d) == t % d

\* upose.cpp:37  (rand() % (2*radius)) - radius, for rand() = r and radius # 0
Change(r, rad) == (r % (2 * rad)) - rad

\* the largest value rand() returns: stands for RAND_MAX, large enough for
\* every remainder modulo 2*radius to occur
RandMax == 2 * MaxRadius - 1

\* the call, with its arguments
OptInit ==
    /\ pc = "entry"
    /\ cost \in CostFunctions
    /\ dimension \in 1..MaxDimension
    /\ iterationCount \in 0..MaxIterations
    /\ radius \in 0..MaxRadius
    /\ seed \in [1..dimension -> 0..MaxSeed]
    /\ optimum = seed
    /\ candidate = << >>
    /\ best = 0
    /\ iteration = 0
    /\ dim = 0
    /\ change = 0
    /\ candidateCost = 0
    /\ evals = 0

\* upose.cpp:27-32  candidate is a copy of optimum; best is the seed's cost
OptEnter ==
    /\ pc = "entry"
    /\ candidate' = optimum
    /\ best' = CostOf(cost, optimum)
    /\ evals' = evals + 1
    /\ pc' = "loop"
    /\ UNCHANGED <<cost, dimension, iterationCount, radius, seed, optimum,
                   iteration, dim, change, candidateCost>>
    /\ UNCHANGED trackVars

\* upose.cpp:39-49  one iteration from the perturbation on, for a given
\* coordinate d (0-based) and offset c
Perturb(d, c) ==
    LET moved == [candidate EXCEPT ![d + 1] = optimum[d + 1] + c]
        movedCost == CostOf(cost, moved)
    IN  /\ dim' = d
        /\ change' = c
        /\ candidateCost' = movedCost
        /\ evals' = evals + 1
        /\ iteration' = iteration + 1
        /\ IF Improves(movedCost, best)
           THEN /\ optimum' = moved
                /\ candidate' = moved
                /\ best' = movedCost
           ELSE /\ candidate' = [moved EXCEPT ![d + 1] = optimum[d + 1]]
                /\ UNCHANGED <<optimum, best>>
        /\ UNCHANGED <<pc, cost, dimension, iterationCount, radius, seed>>
        /\ UNCHANGED trackVars

\* upose.cpp:34-50  one iteration of the loop, rand() returning r
OptIterate(r) ==
    /\ pc = "loop"
    /\ iteration < iterationCount
    /\ radius # 0
    /\ Perturb(Dim(iteration, dimension), Change(r, radius))

\* upose.cpp:37  with radius = 0 the remainder rand() % 0 is undefined: the
\* division traps and the process dies, or (where integer division by zero
\* does not trap and the remainder comes out as the dividend) the loop goes
\* on with change = rand()
OptRemainderByZero(r) ==
    /\ pc = "loop"
    /\ iteration < iterationCount
    /\ radius = 0
    /\ \/ /\ pc' = "failed"
          /\ UNCHANGED <<cost, dimension, iterationCount, radius, seed,
                         optimum, candidate, best, iteration, dim, change,
                         candidateCost, evals>>
          /\ UNCHANGED trackVars
       \/ Perturb(Dim(iteration, dimension), r)

\* upose.cpp:34, 52  the loop ends when iteration reaches iterationCount;
\* candidate is freed
OptReturn ==
    /\ pc = "loop"
    /\ iteration >= iterationCount
    /\ pc' = "done"
    /\ candidate' = << >>
    /\ UNCHANGED <<cost, dimension, iterationCount, radius, seed, optimum,
                   best, iteration, dim, change, candidateCost, evals>>
    /\ UNCHANGED trackVars

OptNext ==
    \/ OptEnter
    \/ \E r \in 0..RandMax : OptIterate(r)
    \/ \E r \in 0..RandMax : OptRemainderByZero(r)
    \/ OptReturn

\* no call of optimizeRandomSearch is in progress
OptIdle ==
    /\ pc = "idle"
    /\ cost = "flat"
    /\ dimension = 1
    /\ iterationCount = 0
    /\ radius = 0
    /\ seed = << 0 >>
    /\ optimum = << 0 >>
    /\ candidate = << >>
    /\ best = 0
    /\ iteration = 0
    /\ dim = 0
    /\ change = 0
    /\ candidateCost = 0
    /\ evals = 0

(***************************************************************************)
(* The specifications: the tracker stepping through frames, and one call   *)
(* of optimizeRandomSearch on any arguments.                               *)
(***************************************************************************)
InitTrack == TrackInit /\ OptIdle

SpecTrack == InitTrack /\ [][TrackNext]_vars

InitOpt == TrackInit /\ OptInit

SpecOpt == InitOpt /\ [][OptNext]_vars

(***************************************************************************)
(* Claims about the tracker, checked under SpecTrack.                      *)
(***************************************************************************)
\* a frame has been tracked and its contours reached the threshold: the
\* cost matrix was built and the scan ran
Scanned == frameNo >= 1 /\ Len(contours) >= 3

\* the bounding rectangle of the candidate a role (1..3) selected
Selected(p) == boundingRect(contours[indices[p] + 1])

\* the midpoint of a rectangle, halves rounded to the even neighbour
Midpoint(r) ==
    LET half(n) == IF n % 2 = 0 THEN n \div 2
                   ELSE IF (n \div 2) % 2 = 0 THEN n \div 2 ELSE n \div 2 + 1
    IN  Pt(half(2 * r.x + r.width), half(2 * r.y + r.height))

\* the no-match threshold of a frame of Rows x Cols
NoMatch == (Rows * Rows + Cols * Cols) \div 64

\* C1 (Tracker persistence): after a track2DFeatures call (a frame step) on
\* fewer than 3 contours, every tracked estimate - face, both hands, neck,
\* both shoulders and the un-normalized hand priors - equals its value
\* before the call.
C1_TrackerPersistence ==
    (frameNo >= 1 /\ Len(contours) < 3)
        => (m_last2D = prev2D /\ m_lastu2D = prevu2D)

\* a second frame with 2 contours arrives after a frame that moved the
\* estimates, and leaves them where they were
C1_Witness ==
    /\ frameNo = 2
    /\ Len(contours) = 2
    /\ prev2D.face # Origin
    /\ prevu2D.leftHand # Origin
    /\ m_last2D = prev2D

\* C2 (Cost-tie determinism): with at least 3 candidates, each role whose
\* minimum cost over all candidates is below the sentinel selects the
\* lowest-indexed candidate having that minimum cost.
C2_CostTieDeterminism ==
    Scanned =>
        \A p \in 1..3 :
            LET least == CHOOSE c \in { costs[i][p] : i \in 1..Len(costs) } :
                            \A i \in 1..Len(costs) : c <= costs[i][p]
                first == CHOOSE i \in 1..Len(costs) :
                            /\ costs[i][p] = least
                            /\ \A j \in 1..(i - 1) : costs[j][p] # least
            IN  least < NoMatch => indices[p] = first - 1

\* two candidates tie at a role's minimum cost, below the sentinel, and the
\* earlier one is selected
C2_Witness ==
    /\ Scanned
    /\ \E p \in 1..3 : \E i, j \in 1..Len(costs) :
          /\ i < j
          /\ costs[i][p] = costs[j][p]
          /\ costs[i][p] < NoMatch
          /\ \A k \in 1..Len(costs) : costs[i][p] <= costs[k][p]
          /\ indices[p] = i - 1

\* C3 (Derived-point invariant): after a frame that updates Face to a
\* candidate with bounding box (faceX, faceY, faceWidth), neck is
\* (faceX, faceY + 2*faceWidth), leftShoulder is neck moved by -faceWidth/2
\* and rightShoulder neck moved by 3*faceWidth/2 in x (C++ integer
\* division); on a rectangle of width 0 the three formulas coincide.
C3_DerivedPoints ==
    /\ (Scanned /\ indices[1] > -1) =>
          LET f == Selected(1)
          IN  /\ m_last2D.neck = Pt(f.x, f.y + 2 * f.width)
              /\ m_last2D.leftShoulder =
                    Pt(m_last2D.neck.x - (f.width \div 2), m_last2D.neck.y)
              /\ m_last2D.rightShoulder =
                    Pt(m_last2D.neck.x + ((3 * f.width) \div 2), m_last2D.neck.y)
    /\ \A fx, fy \in 0..2 :
          LET f == [x |-> fx, y |-> fy, width |-> 0, height |-> 0]
          IN  /\ Neck(f) = Pt(fx, fy)
              /\ LeftShoulder(Neck(f), f) = Neck(f)
              /\ RightShoulder(Neck(f), f) = Neck(f)

\* Face is updated to a candidate of odd width, where the halves truncate
C3_Witness ==
    /\ Scanned
    /\ indices[1] > -1
    /\ Selected(1).width % 2 = 1
    /\ Selected(1).width > 1
    /\ m_last2D.face = Midpoint(Selected(1))
    /\ m_last2D.leftShoulder # m_last2D.neck

\* the points of a contour
Points(contour) == { contour[i] : i \in 1..Len(contour) }

\* the contour point half way round from the first point nearest (by whole
\* distance) to the shoulder
HalfWayRound(contour, shoulder) ==
    LET n == Len(contour)
        d(i) == Isqrt(NormSq(PtSub(shoulder, contour[i])))
        near == CHOOSE i \in 1..n :
                    /\ \A j \in 1..n : d(i) <= d(j)
                    /\ \A j \in 1..(i - 1) : d(j) > d(i)
    IN  contour[((near - 1 + n \div 2) % n) + 1]

\* C6 (Sentinel fallback): with at least 3 candidates a role's location is
\* replaced (by the selected candidate's points) exactly when some candidate
\* costs less than the sentinel (rows^2 + cols^2)/64 for it; a role no
\* candidate beats the sentinel for keeps its previous location, Face also
\* its neck and shoulders; every location is always a defined point.
C6_SentinelFallback ==
    /\ \A f \in DOMAIN m_last2D : m_last2D[f].x \in Int /\ m_last2D[f].y \in Int
    /\ \A f \in DOMAIN m_lastu2D : m_lastu2D[f].x \in Int /\ m_lastu2D[f].y \in Int
    /\ Scanned =>
        /\ \A p \in 1..3 :
              (indices[p] > -1) <=> (\E i \in 1..Len(costs) : costs[i][p] < NoMatch)
        /\ IF indices[1] > -1
           THEN m_last2D.face = Midpoint(Selected(1))
           ELSE /\ m_last2D.face = prev2D.face
                /\ m_last2D.neck = prev2D.neck
                /\ m_last2D.leftShoulder = prev2D.leftShoulder
                /\ m_last2D.rightShoulder = prev2D.rightShoulder
        /\ IF indices[2] > -1
           THEN /\ m_lastu2D.leftHand = Midpoint(Selected(2))
                /\ m_last2D.leftHand \in Points(contours[indices[2] + 1])
           ELSE /\ m_lastu2D.leftHand = prevu2D.leftHand
                /\ m_last2D.leftHand = prev2D.leftHand
        /\ IF indices[3] > -1
           THEN /\ m_lastu2D.rightHand = Midpoint(Selected(3))
                /\ m_last2D.rightHand \in Points(contours[indices[3] + 1])
           ELSE /\ m_lastu2D.rightHand = prevu2D.rightHand
                /\ m_last2D.rightHand = prev2D.rightHand

\* in a second frame of at least 3 candidates none beats the sentinel for
\* Face, which keeps the location, neck and shoulders an earlier frame gave
\* it, while RightHand is replaced
C6_Witness ==
    /\ frameNo = 2
    /\ Len(contours) >= 3
    /\ indices[1] = -1
    /\ indices[3] > -1
    /\ prev2D.face # Origin
    /\ m_last2D.face = prev2D.face
    /\ m_last2D.neck = prev2D.neck
    /\ m_lastu2D.rightHand # prevu2D.rightHand
    /\ m_last2D.rightHand # prev2D.rightHand

Roles(f) == [face |-> f.face, leftHand |-> f.leftHand, rightHand |-> f.rightHand]

\* a frame is being tracked whose contours reach the threshold
Scanning == frameNo' = frameNo + 1 /\ Len(contours') >= 3

\* C9 (Temporal prior coherence), as claimed: the location each role's cost
\* measures from in frame N+1 is the location handed to the optimizer and
\* to rendering for that role in frame N.
C9_PriorsAreRendered ==
    [][(frameNo >= 1 /\ Scanning) => priors' = Roles(rendered)]_vars

\* C9 as amended: in frame N+1 Face's cost measures from the Face location
\* handed on in frame N; LeftHand's and RightHand's costs measure from the
\* un-normalized hand locations kept beside it (the bounding-box midpoint of
\* the candidate last assigned to the hand), not from the sleeve-normalized
\* hand locations handed to the optimizer and to rendering.
C9_PriorsAreUnnormalized ==
    /\ [][Scanning =>
            /\ priors'.face = rendered.face
            /\ priors'.leftHand = m_lastu2D.leftHand
            /\ priors'.rightHand = m_lastu2D.rightHand
            /\ \A i \in 1..Len(contours') :
                  LET b == boundingRect(contours'[i])
                      c == Midpoint(b)
                  IN  costs'[i] =
                        << NormPlusToInt(PtSub(rendered.face, c), c.y - b.width),
                           NormPlusToInt(PtSub(m_lastu2D.leftHand, c),
                                         c.x - b.width),
                           NormPlusToInt(PtSub(m_lastu2D.rightHand, c),
                                         (Cols - c.x) - b.width) >>]_vars
    /\ [](frameNo >= 1 => rendered = m_last2D)
    /\ []((Scanned /\ indices[2] > -1) =>
            m_lastu2D.leftHand = Midpoint(Selected(2)))
    /\ []((Scanned /\ indices[3] > -1) =>
            m_lastu2D.rightHand = Midpoint(Selected(3)))

\* a second frame measures a hand's cost from a location that differs from
\* the hand location the first frame handed on
C9_Witness ==
    /\ frameNo = 2
    /\ Len(contours) >= 3
    /\ priors.face = prev2D.face
    /\ priors.leftHand = prevu2D.leftHand
    /\ priors.leftHand # prev2D.leftHand
    /\ priors.rightHand # prev2D.rightHand

\* the frame holds exactly the three given regions, in some order
Holds(cs, a, b, c) == Len(cs) = 3 /\ Points(cs) = {a, b, c}

\* a point or a record of points moved by (dx, 0)
Moved(pt, dx) == Pt(pt.x + dx, pt.y)

MovedAll(f, dx) == [k \in DOMAIN f |-> Moved(f[k], dx)]

\* C5 (End-to-end tracking), as claimed: after a first frame on the 3-blob
\* configuration (wide top-centre blob, left blob, right blob) Face is the
\* top blob's bounding-box midpoint, LeftHand the left blob's and RightHand
\* the right blob's; and a following frame with every blob moved by (+2, 0)
\* moves the role estimates handed on by (+2, 0).
C5_EndToEndAsClaimed ==
    /\ (frameNo = 1 /\ Holds(contours, TopBlob, LeftBlob, RightBlob)) =>
          /\ rendered.face = Midpoint(boundingRect(TopBlob))
          /\ rendered.leftHand = Midpoint(boundingRect(LeftBlob))
          /\ rendered.rightHand = Midpoint(boundingRect(RightBlob))
    /\ (/\ frameNo = 2
        /\ Holds(contours, Shift(TopBlob, 2), Shift(LeftBlob, 2), Shift(RightBlob, 2))
        /\ prev2D.face = Midpoint(boundingRect(TopBlob))
        /\ prev2D.leftHand = Midpoint(boundingRect(LeftBlob))
        /\ prev2D.rightHand = Midpoint(boundingRect(RightBlob))) =>
          Roles(rendered) = MovedAll(Roles(prev2D), 2)

\* C5 as amended: after a frame of at least 3 blobs, each role whose
\* minimum cost beats the sentinel takes its estimate from its minimum-cost
\* blob, which need not be the blob on the role's side of the image: Face,
\* and the un-normalized hand location kept as the next frame's prior, are
\* that blob's bounding-box midpoint (halves rounded to even); the hand
\* location handed to the optimizer and to rendering is the point of that
\* blob's contour half way round from the point nearest to the shoulder.
\* When the next frame has every blob moved by (+2, 0) and every role
\* selects the same blob again, every estimate moves by exactly (+2, 0).
C5_EndToEndByMinimumCost ==
    /\ [](Scanned =>
            /\ \A p \in 1..3 : indices[p] > -1 =>
                  \A i \in 1..Len(costs) : costs[indices[p] + 1][p] <= costs[i][p]
            /\ indices[1] > -1 => rendered.face = Midpoint(Selected(1))
            /\ indices[2] > -1 =>
                  /\ m_lastu2D.leftHand = Midpoint(Selected(2))
                  /\ rendered.leftHand =
                        HalfWayRound(contours[indices[2] + 1], rendered.leftShoulder)
            /\ indices[3] > -1 =>
                  /\ m_lastu2D.rightHand = Midpoint(Selected(3))
                  /\ rendered.rightHand =
                        HalfWayRound(contours[indices[3] + 1], rendered.rightShoulder))
    /\ [][(/\ Scanned
           /\ frameNo' = frameNo + 1
           /\ contours' = ShiftAll(contours, 2)
           /\ indices' = indices
           /\ \A p \in 1..3 : indices[p] > -1) =>
              /\ rendered' = MovedAll(rendered, 2)
              /\ m_lastu2D' = MovedAll(m_lastu2D, 2)]_vars

\* the first frame held the 3-blob configuration: Face took the top blob's
\* midpoint, LeftHand the left blob (its contour point, not its midpoint),
\* RightHand the top blob; the second frame holds the blobs moved by (+2, 0)
\* and every estimate has moved by (+2, 0)
C5_Witness ==
    /\ frameNo = 2
    /\ Holds(contours, Shift(TopBlob, 2), Shift(LeftBlob, 2), Shift(RightBlob, 2))
    /\ \A p \in 1..3 : indices[p] > -1
    /\ prev2D.face = Midpoint(boundingRect(TopBlob))
    /\ prevu2D.leftHand = Midpoint(boundingRect(LeftBlob))
    /\ prev2D.leftHand \in Points(LeftBlob)
    /\ prev2D.leftHand # prevu2D.leftHand
    /\ prevu2D.rightHand = Midpoint(boundingRect(TopBlob))
    /\ prev2D.rightHand \in Points(TopBlob)
    /\ rendered = MovedAll(prev2D, 2)
    /\ m_lastu2D = MovedAll(prevu2D, 2)
    /\ \E first \in Frames :
          /\ contours = ShiftAll(first, 2)
          /\ LET t == Track(InitialFeatures, InitialHands, first, Rows, Cols)
             IN  /\ t.last2D = prev2D
                 /\ t.lastu2D = prevu2D
                 /\ t.indices = indices

(***************************************************************************)
(* Claims about optimizeRandomSearch, checked under SpecOpt.               *)
(***************************************************************************)
\* C4 (Optimizer monotonicity): the tracked best cost never increases from
\* one iteration to the next, it is the cost of the parameters held in
\* optimum, and the parameters returned cost no more than the seed.
C4_OptimizerMonotone ==
    /\ [][pc = "loop" => best' <= best]_vars
    /\ [](pc \in {"loop", "done", "failed"} =>
            /\ best = CostOf(cost, optimum)
            /\ best <= CostOf(cost, seed))
    /\ [](pc = "done" => CostOf(cost, optimum) <= CostOf(cost, seed))

\* a call returned parameters cheaper than the seed, after an iteration
\* that lowered the best cost and a last one that was rejected
C4_Witness ==
    /\ pc = "done"
    /\ radius >= 1
    /\ iterationCount >= 2
    /\ best < CostOf(cost, seed)
    /\ CostOf(cost, optimum) = best
    /\ candidateCost > best
    /\ optimum # seed

\* C7 (Optimizer termination): for any cost function, dimension, iteration
\* budget, step radius and seed the call never fails and returns after
\* exactly iterationCount iterations, the cost function having been called
\* once for the seed and once per iteration.
C7_OptimizerTerminates ==
    /\ pc # "failed"
    /\ pc = "done" => (iteration = iterationCount /\ evals = iterationCount + 1)
    /\ pc = "loop" => (iteration <= iterationCount /\ evals = iteration + 1)

\* C10 (Coordinate-wise step): iteration t changes at most coordinate
\* t mod D of optimum; an accepted candidate moves that coordinate by an
\* offset within [-radius, +radius] and lowers the best cost; a rejected one
\* leaves optimum unchanged; either way candidate equals optimum in every
\* coordinate before the next iteration.
C10_CoordinateWiseStep ==
    /\ [][(pc = "loop" /\ iteration' = iteration + 1) =>
            LET d == (iteration % dimension) + 1
            IN  /\ \A k \in 1..dimension : k # d => optimum'[k] = optimum[k]
                /\ optimum' # optimum =>
                      /\ optimum'[d] - optimum[d] \in (-radius)..radius
                      /\ best' < best
                /\ optimum' = optimum => best' = best
                /\ candidate' = optimum']_vars
    /\ [](pc = "loop" => candidate = optimum)

=============================================================================
